---- MODULE Spec2Model ----
(***************************************************************************)
(* A model of LoginSession (src/src/LoginSession.ts): the token setters,   *)
(* startWithCredentials and the guard evaluation of                        *)
(* _processStartSessionResponse, the polling loop _doPoll with its timer,  *)
(* cancelLoginAttempt, submitSteamGuardCode, and getWebCookies with        *)
(* promiseAny.                                                             *)
(*                                                                         *)
(* Node runs one macrotask (an I/O completion, a setImmediate callback, a  *)
(* timer callback, a call of the embedding program) at a time, and the     *)
(* microtasks it queues before the next one.  An action of this model is   *)
(* therefore the code that runs from one such wake-up to the next real     *)
(* suspension (an await of a collaborator call) or to the end.             *)
(*                                                                         *)
(* Not modelled, because their only use is as arguments of collaborator    *)
(* calls whose replies are drawn nondeterministically here: clientId,      *)
(* _steamGuardMachineToken, _platformType, the challenge's message, and    *)
(* the 'debug' notifications.                                              *)
(***************************************************************************)
EXTENDS Integers, Sequences, FiniteSets, TLC

\* ------------------------------------------------------------------ bounds
MaxTime == 2          \* the clock (Date.now()) runs over 1..MaxTime
MaxAttempts == 2      \* calls of startWithCredentials in one behaviour
MaxImmediates == 2    \* setImmediate(_doPoll) callbacks queued at once
MaxInFlight == 2      \* pollLoginStatus calls awaiting their reply at once
MaxOrphans == 1       \* armed poll timers whose handle was overwritten
MaxAuth == 2          \* 'authenticated' notifications counted per attempt
MaxTransfers == 3     \* transfer_info entries of a finalizelogin response
MaxChallenges == 2    \* challenges in the allowedConfirmations of a start response

\* loginTimeout (30000 ms) in units of 30 s, the unit of the model's clock.
LoginTimeout == 1

\* ------------------------------------------------------------------ tokens
Empty == "empty"      \* a falsy token: undefined, null or ''
NoId == "noid"        \* a falsy steamId of a start response
Subjects == {"A", "B"}

\* Token strings.  jwtA1 carries subject A, jwtB1 subject B, jwtBadSub decodes
\* to a subject that is no SteamID, junk does not decode.
Tokens == {"jwtA1", "jwtB1", "jwtBadSub", "junk"}

\* helpers.decodeJwt: the claims of a token, or a failure.
decodeJwt(token) ==
    CASE token = "jwtA1" -> [ok |-> TRUE, sub |-> "A"]
      [] token = "jwtB1" -> [ok |-> TRUE, sub |-> "B"]
      [] token = "jwtBadSub" -> [ok |-> TRUE, sub |-> "nobody"]
      [] OTHER -> [ok |-> FALSE, sub |-> "none"]

\* new SteamID(sub) does not throw.
ValidSteamID(sub) == sub \in Subjects

NoResp == [started |-> FALSE, steamId |-> NoId, allowedConfirmations |-> <<>>]

\* The error a token setter throws for `token`, given the stored start response
\* and the other token; "ok" when it commits.  The two setters run the same
\* checks, each against the other slot.
TokenErrorNoOtherCheck(token, ssr, other) ==
    IF token = Empty THEN "ok"
    ELSE IF ~decodeJwt(token).ok THEN "malformed"
    ELSE IF ~ValidSteamID(decodeJwt(token).sub) THEN "notSteamToken"
    ELSE IF ssr.started /\ ssr.steamId # NoId /\ decodeJwt(token).sub # ssr.steamId
         THEN "differentAccount"
    ELSE "ok"

TokenErrorNoStartCheck(token, ssr, other) ==
    IF token = Empty THEN "ok"
    ELSE IF ~decodeJwt(token).ok THEN "malformed"
    ELSE IF ~ValidSteamID(decodeJwt(token).sub) THEN "notSteamToken"
    ELSE IF other # Empty /\ decodeJwt(other).sub # decodeJwt(token).sub
         THEN "otherTokenMismatch"
    ELSE "ok"

TokenError(token, ssr, other) ==
    IF token = Empty THEN "ok"
    ELSE IF ~decodeJwt(token).ok THEN "malformed"
    ELSE IF ~ValidSteamID(decodeJwt(token).sub) THEN "notSteamToken"
    ELSE IF ssr.started /\ ssr.steamId # NoId /\ decodeJwt(token).sub # ssr.steamId
         THEN "differentAccount"
    ELSE IF other # Empty /\ decodeJwt(other).sub # decodeJwt(token).sub
         THEN "otherTokenMismatch"
    ELSE "ok"

\* ------------------------------------------------------------ guard types
GuardTypes == {"None", "EmailCode", "DeviceCode", "DeviceConfirmation",
               "EmailConfirmation", "MachineToken", "Unknown"}

\* The allowedConfirmations lists a start response is drawn from: every list
\* of at most MaxChallenges challenges.
SeqsUpTo(S, n) == UNION { [1..k -> S] : k \in 0..n }
ConfirmationLists == SeqsUpTo(GuardTypes, MaxChallenges)

StartSteamIds == Subjects \cup {NoId}

\* EResult values of a failed submitSteamGuardCode call; "transport" is a
\* failure that carries no eresult.
SubmitFailures == {"InvalidLoginAuthCode", "TwoFactorCodeMismatch", "AccessDenied", "transport"}

NoCode == "nocode"
GuardCodes == {NoCode, "12345"}

some(confs, type) == \E k \in 1..Len(confs) : confs[k] = type

\* ---------------------------------------------------------------- results
Unsettled == [kind |-> "none"]
Resolved(actionRequired, actions) ==
    [kind |-> "resolved", actionRequired |-> actionRequired, validActions |-> actions]
Rejected(src, err) == [kind |-> "rejected", src |-> src, err |-> err]

VARIABLES
    accessToken,         \* _accessToken
    refreshToken,        \* _refreshToken
    accountName,         \* accountName
    startResp,           \* _startSessionResponse
    steamGuardCode,      \* _steamGuardCode
    hadRemoteInteraction,\* _hadRemoteInteraction
    pollingStartedTime,  \* _pollingStartedTime, 0 when unset
    pollTimer,           \* _pollTimer: "undefined", or the state of the handle
    pollingCanceled,     \* _pollingCanceled
    now,                 \* Date.now()
    immediates,          \* queued setImmediate(() => this._doPoll())
    orphanTimers,        \* armed timers no longer referenced by _pollTimer
    inFlight,            \* _doPoll invocations awaiting pollLoginStatus
    startPc,             \* where startWithCredentials is suspended
    idx,                 \* index of the challenge last evaluated
    validActions,        \* the local validActions of _processStartSessionResponse
    startResult,         \* how the last startWithCredentials settled
    submitPc,            \* where a direct submitSteamGuardCode call is suspended
    ret,                 \* the last setter or submitSteamGuardCode call and its outcome
    attempts,            \* startWithCredentials calls so far
    authCount,           \* 'authenticated' notifications in this attempt
    timedOut,            \* 'timeout' was emitted in this attempt
    codeSubmits,         \* handler.submitSteamGuardCode calls made by this attempt's guard evaluation
    errorEmitted,        \* 'error' was emitted since the caller last scheduled a tick
    firstTickTime,       \* Date.now() at the first tick run for the stored start response, 0 before it
    transfers,           \* getWebCookies: state of each transfer promise
    catchQueue,          \* getWebCookies: rejections waiting for their catch handler
    pendingPromises,     \* promiseAny: pendingPromises
    rejections,          \* promiseAny: rejections
    completionOrder,     \* getWebCookies: the transfers in the order they settled
    cookieResult,        \* getWebCookies: how the call settled
    cookiePc             \* getWebCookies: where the call is

sessionVars == <<accessToken, refreshToken, accountName, startResp, steamGuardCode,
                 hadRemoteInteraction, pollingStartedTime, pollTimer, pollingCanceled,
                 now, immediates, orphanTimers, inFlight, startPc, idx, validActions,
                 startResult, submitPc, ret, attempts, authCount, timedOut, codeSubmits,
                 errorEmitted, firstTickTime>>
cookieVars == <<transfers, catchQueue, pendingPromises, rejections, completionOrder,
                cookieResult, cookiePc>>
vars == <<sessionVars, cookieVars>>
tokenVars == <<accessToken, refreshToken, accountName>>
pollVars == <<hadRemoteInteraction, pollingStartedTime, pollTimer, pollingCanceled,
              immediates, orphanTimers, inFlight, authCount, timedOut, errorEmitted,
              firstTickTime>>
startVars == <<startResp, steamGuardCode, startPc, idx, validActions, startResult,
               attempts, codeSubmits>>

NoRet == [op |-> "none", out |-> "none"]

\* The state after the constructor.
Init ==
    /\ accessToken = Empty
    /\ refreshToken = Empty
    /\ accountName = "none"
    /\ startResp = NoResp
    /\ steamGuardCode = NoCode
    /\ hadRemoteInteraction = FALSE
    /\ pollingStartedTime = 0
    /\ pollTimer = "undefined"
    /\ pollingCanceled = FALSE
    /\ now = 1
    /\ immediates = 0
    /\ orphanTimers = 0
    /\ inFlight = 0
    /\ startPc = "idle"
    /\ idx = 0
    /\ validActions = <<>>
    /\ startResult = Unsettled
    /\ submitPc = "idle"
    /\ ret = NoRet
    /\ attempts = 0
    /\ authCount = 0
    /\ timedOut = FALSE
    /\ codeSubmits = 0
    /\ errorEmitted = FALSE
    /\ firstTickTime = 0
    /\ transfers = <<>>
    /\ catchQueue = <<>>
    /\ pendingPromises = 0
    /\ rejections = <<>>
    /\ completionOrder = <<>>
    /\ cookieResult = Unsettled
    /\ cookiePc = "idle"

\* ------------------------------------------------------------ token setters
\* set accessToken(token)
SetAccessToken(token) ==
    LET err == TokenError(token, startResp, refreshToken) IN
    /\ accessToken' = IF err = "ok" THEN token ELSE accessToken
    /\ ret' = [op |-> "setAccessToken", out |-> err]
    /\ UNCHANGED <<refreshToken, accountName, pollVars, startVars, submitPc, now, cookieVars>>

\* set refreshToken(token)
SetRefreshToken(token) ==
    LET err == TokenError(token, startResp, accessToken) IN
    /\ refreshToken' = IF err = "ok" THEN token ELSE refreshToken
    /\ ret' = [op |-> "setRefreshToken", out |-> err]
    /\ UNCHANGED <<accessToken, accountName, pollVars, startVars, submitPc, now, cookieVars>>

\* --------------------------------------------------- startWithCredentials
\* _attemptEmailCodeAuth line 290 / _attemptTotpCodeAuth line 326: whether the
\* catch block swallows a submission failure with result code `eresult`.
SwallowsAnyFailure(type, eresult) == TRUE

SwallowsSubmitFailure(type, eresult) ==
    IF type = "EmailCode" THEN eresult = "InvalidLoginAuthCode"
    ELSE eresult = "TwoFactorCodeMismatch"

\* The outcome of the loop body for a challenge of type None: a tick is
\* scheduled and _processStartSessionResponse returns.
NoneOutcomeNoTick(i, va, imm) ==
    [pc |-> "idle", idx |-> i, va |-> va, imm |-> imm, res |-> Resolved(FALSE, <<>>)]

NoneOutcome(i, va, imm) ==
    [pc |-> "idle", idx |-> i, va |-> va, imm |-> imm + 1, res |-> Resolved(FALSE, <<>>)]

\* _attemptEmailCodeAuth is the only caller of checkMachineAuthOrSendCodeEmail
\* (line 182 selects it for EmailCode challenges), and calls it when the start
\* response lists MachineToken (line 298).
machineCheckAnyCodeType(confs, i) == some(confs, "MachineToken")

machineCheck(confs, i) == confs[i] = "EmailCode" /\ some(confs, "MachineToken")

\* What _processStartSessionResponse settles with when the loop has run
\* through every challenge (lines 224-232).
endOfLoopNoCheck(va) == Resolved(TRUE, va)

endOfLoop(va) ==
    IF Len(va) = 0 THEN Rejected("processStartSessionResponse", "noValidActions")
    ELSE Resolved(TRUE, va)

\* The for loop of _processStartSessionResponse from challenge i, with the
\* validActions collected and the ticks scheduled so far, up to its next
\* suspension (pc "submit": awaiting handler.submitSteamGuardCode; pc "machine":
\* awaiting handler.checkMachineAuthOrSendCodeEmail) or its end (pc "idle").
RECURSIVE processLoop(_, _, _, _, _)
processLoop(confs, code, i, va, imm) ==
    IF i > Len(confs)
    THEN [pc |-> "idle", idx |-> i - 1, va |-> va, imm |-> imm, res |-> endOfLoop(va)]
    ELSE CASE confs[i] = "None" -> NoneOutcome(i, va, imm)
           [] confs[i] \in {"EmailCode", "DeviceCode"} ->
                IF code # NoCode
                THEN [pc |-> "submit", idx |-> i, va |-> va, imm |-> imm, res |-> Unsettled]
                ELSE IF machineCheck(confs, i)
                THEN [pc |-> "machine", idx |-> i, va |-> va, imm |-> imm, res |-> Unsettled]
                ELSE processLoop(confs, code, i + 1, Append(va, confs[i]), imm)
           [] confs[i] \in {"DeviceConfirmation", "EmailConfirmation"} ->
                processLoop(confs, code, i + 1, Append(va, confs[i]), imm + 1)
           [] confs[i] = "MachineToken" ->
                processLoop(confs, code, i + 1, va, imm)
           [] OTHER ->
                [pc |-> "idle", idx |-> i, va |-> va, imm |-> imm,
                 res |-> Rejected("processStartSessionResponse", "unknownGuardType")]

\* The state of the start call after a stretch of guard evaluation.
Continue(r) ==
    /\ r.imm <= MaxImmediates
    /\ startPc' = r.pc
    /\ idx' = r.idx
    /\ validActions' = r.va
    /\ immediates' = r.imm
    /\ startResult' = r.res
    /\ codeSubmits' = IF r.pc = "submit" THEN codeSubmits + 1 ELSE codeSubmits
    /\ errorEmitted' = IF r.imm > immediates THEN FALSE ELSE errorEmitted

\* startWithCredentials, to the await of encryptPassword.  One call at a time.
StartWithCredentials(code) ==
    /\ startPc = "idle"
    /\ attempts < MaxAttempts
    /\ attempts' = attempts + 1
    /\ hadRemoteInteraction' = FALSE
    /\ steamGuardCode' = code
    /\ startPc' = "encrypt"
    /\ startResult' = Unsettled
    /\ idx' = 0
    /\ validActions' = <<>>
    /\ authCount' = 0
    /\ timedOut' = FALSE
    /\ codeSubmits' = 0
    /\ errorEmitted' = FALSE
    /\ UNCHANGED <<tokenVars, startResp, firstTickTime, pollingStartedTime, pollTimer, pollingCanceled,
                   now, immediates, orphanTimers, inFlight, submitPc, ret, cookieVars>>

\* encryptPassword resolves: startSessionWithCredentials is called.
EncryptPasswordDone ==
    /\ startPc = "encrypt"
    /\ startPc' = "start"
    /\ UNCHANGED <<tokenVars, pollVars, startResp, steamGuardCode, idx, validActions,
                   startResult, attempts, codeSubmits, submitPc, ret, now, cookieVars>>

\* encryptPassword or startSessionWithCredentials rejects.
StartCallFail ==
    /\ startPc \in {"encrypt", "start"}
    /\ startPc' = "idle"
    /\ startResult' = Rejected(startPc, "transport")
    /\ UNCHANGED <<tokenVars, pollVars, startResp, steamGuardCode, idx, validActions,
                   attempts, codeSubmits, submitPc, ret, now, cookieVars>>

\* startSessionWithCredentials resolves: the response is stored and
\* _processStartSessionResponse runs.
StartSessionDone(steamId, confs) ==
    /\ startPc = "start"
    /\ startResp' = [started |-> TRUE, steamId |-> steamId, allowedConfirmations |-> confs]
    /\ pollingCanceled' = FALSE
    /\ firstTickTime' = 0
    /\ Continue(processLoop(confs, steamGuardCode, 1, <<>>, immediates))
    /\ UNCHANGED <<tokenVars, steamGuardCode, hadRemoteInteraction, pollingStartedTime,
                   pollTimer, orphanTimers, inFlight, attempts, authCount, timedOut,
                   submitPc, ret, now, cookieVars>>

\* _attemptEmailCodeAuth / _attemptTotpCodeAuth after the code was not
\* submitted or its failure was swallowed: the machine-token shortcut, or false.
AfterCode ==
    LET confs == startResp.allowedConfirmations IN
    IF machineCheck(confs, idx)
    THEN [pc |-> "machine", idx |-> idx, va |-> validActions, imm |-> immediates,
          res |-> Unsettled]
    ELSE processLoop(confs, steamGuardCode, idx + 1, Append(validActions, confs[idx]),
                     immediates)

\* The submitSteamGuardCode call of guard evaluation resolves.
SubmitCodeDone ==
    /\ startPc = "submit"
    /\ Continue([pc |-> "idle", idx |-> idx, va |-> validActions, imm |-> immediates + 1,
                 res |-> Resolved(FALSE, <<>>)])
    /\ UNCHANGED <<tokenVars, startResp, steamGuardCode, hadRemoteInteraction,
                   pollingStartedTime, pollTimer, pollingCanceled, orphanTimers, inFlight,
                   attempts, authCount, timedOut, firstTickTime, submitPc, ret, now, cookieVars>>

\* The submitSteamGuardCode call of guard evaluation rejects.
SubmitCodeFail(eresult) ==
    /\ startPc = "submit"
    /\ IF SwallowsSubmitFailure(startResp.allowedConfirmations[idx], eresult)
       THEN Continue(AfterCode)
       ELSE Continue([pc |-> "idle", idx |-> idx, va |-> validActions, imm |-> immediates,
                      res |-> Rejected("submitSteamGuardCode", eresult)])
    /\ UNCHANGED <<tokenVars, startResp, steamGuardCode, hadRemoteInteraction,
                   pollingStartedTime, pollTimer, pollingCanceled, orphanTimers, inFlight,
                   attempts, authCount, timedOut, firstTickTime, submitPc, ret, now, cookieVars>>

\* checkMachineAuthOrSendCodeEmail resolves with result OK or another result.
MachineAuthDone(result) ==
    /\ startPc = "machine"
    /\ IF result = "OK"
       THEN Continue([pc |-> "idle", idx |-> idx, va |-> validActions,
                      imm |-> immediates + 1, res |-> Resolved(FALSE, <<>>)])
       ELSE Continue(processLoop(startResp.allowedConfirmations, steamGuardCode, idx + 1,
                                 Append(validActions, "EmailCode"), immediates))
    /\ UNCHANGED <<tokenVars, startResp, steamGuardCode, hadRemoteInteraction,
                   pollingStartedTime, pollTimer, pollingCanceled, orphanTimers, inFlight,
                   attempts, authCount, timedOut, firstTickTime, submitPc, ret, now, cookieVars>>

\* checkMachineAuthOrSendCodeEmail rejects.
MachineAuthFail ==
    /\ startPc = "machine"
    /\ startPc' = "idle"
    /\ startResult' = Rejected("checkMachineAuthOrSendCodeEmail", "transport")
    /\ UNCHANGED <<tokenVars, pollVars, startResp, steamGuardCode, idx, validActions,
                   attempts, codeSubmits, submitPc, ret, now, cookieVars>>

\* ---------------------------------------------------- submitSteamGuardCode
\* The authCodeType submitSteamGuardCode passes to the handler (line 351).
authCodeTypeDeviceFirst(confs) ==
    IF some(confs, "DeviceCode") THEN "DeviceCode" ELSE "EmailCode"

authCodeType(confs) ==
    IF some(confs, "EmailCode") THEN "EmailCode" ELSE "DeviceCode"

\* A direct call of submitSteamGuardCode, to its rejection or to the await of
\* the handler.  One call at a time.
SubmitSteamGuardCode ==
    LET confs == startResp.allowedConfirmations
        needsEmailCode == some(confs, "EmailCode")
        needsTotpCode == some(confs, "DeviceCode")
    IN
    /\ submitPc = "idle"
    /\ IF ~startResp.started
       THEN /\ ret' = [op |-> "submitSteamGuardCode", out |-> "notStarted"]
            /\ submitPc' = submitPc
       ELSE IF ~needsEmailCode /\ ~needsTotpCode
       THEN /\ ret' = [op |-> "submitSteamGuardCode", out |-> "noGuardNeeded"]
            /\ submitPc' = submitPc
       ELSE /\ ret' = [op |-> "submitSteamGuardCode", out |-> authCodeType(confs)]
            /\ submitPc' = "await"
    /\ UNCHANGED <<tokenVars, pollVars, startVars, now, cookieVars>>

\* The handler call of a direct submitSteamGuardCode resolves: a tick is scheduled.
SubmitSteamGuardCodeDone ==
    /\ submitPc = "await"
    /\ immediates < MaxImmediates
    /\ submitPc' = "idle"
    /\ immediates' = immediates + 1
    /\ ret' = [ret EXCEPT !.out = "resolved"]
    /\ errorEmitted' = FALSE
    /\ UNCHANGED <<tokenVars, startVars, hadRemoteInteraction, pollingStartedTime, pollTimer,
                   pollingCanceled, orphanTimers, inFlight, authCount, timedOut, firstTickTime, now,
                   cookieVars>>

\* The handler call of a direct submitSteamGuardCode rejects.
SubmitSteamGuardCodeFail ==
    /\ submitPc = "await"
    /\ submitPc' = "idle"
    /\ ret' = [ret EXCEPT !.out = "rejected"]
    /\ UNCHANGED <<tokenVars, pollVars, startVars, now, cookieVars>>

\* ------------------------------------------------------------------ polling
\* cancelLoginAttempt's return value in the current state (lines 360-365): the
\* handle is tested for truthiness, and it is never reset to undefined.
cancelReturns == IF pollTimer # "undefined" THEN "true" ELSE "false"

\* clearTimeout(this._pollTimer)
clearTimeout(handle) == IF handle = "pending" THEN "cleared" ELSE handle

\* cancelLoginAttempt()
CancelLoginAttempt ==
    /\ pollingCanceled' = TRUE
    /\ pollTimer' = clearTimeout(pollTimer)
    /\ UNCHANGED <<tokenVars, startVars, hadRemoteInteraction, pollingStartedTime,
                   immediates, orphanTimers, inFlight, authCount, timedOut, firstTickTime, errorEmitted,
                   submitPc, ret, now, cookieVars>>

\* _doPoll to its return or to the await of pollLoginStatus (lines 236-257),
\* entered with the timer handle in state `handle`.
doPollEnter(handle) ==
    IF pollingCanceled
    THEN /\ pollTimer' = handle
         /\ UNCHANGED <<pollingStartedTime, timedOut, pollingCanceled, inFlight, firstTickTime>>
    ELSE LET started == IF pollingStartedTime = 0 THEN now ELSE pollingStartedTime IN
         /\ pollingStartedTime' = started
         /\ firstTickTime' = IF firstTickTime = 0 THEN now ELSE firstTickTime
         /\ pollTimer' = clearTimeout(handle)
         /\ IF now - started >= LoginTimeout
            THEN /\ timedOut' = TRUE
                 /\ pollingCanceled' = TRUE
                 /\ inFlight' = inFlight
            ELSE /\ inFlight < MaxInFlight
                 /\ inFlight' = inFlight + 1
                 /\ UNCHANGED <<timedOut, pollingCanceled>>

\* A setImmediate(() => this._doPoll()) callback runs.
ImmediateTick ==
    /\ immediates > 0
    /\ immediates' = immediates - 1
    /\ doPollEnter(pollTimer)
    /\ UNCHANGED <<tokenVars, startVars, hadRemoteInteraction, orphanTimers, authCount,
                   errorEmitted, submitPc, ret, now, cookieVars>>

\* The timer referenced by _pollTimer fires.
TimerTick ==
    /\ pollTimer = "pending"
    /\ doPollEnter("fired")
    /\ UNCHANGED <<tokenVars, startVars, hadRemoteInteraction, immediates, orphanTimers,
                   authCount, errorEmitted, submitPc, ret, now, cookieVars>>

\* An armed timer whose handle was overwritten fires.
OrphanTimerTick ==
    /\ orphanTimers > 0
    /\ orphanTimers' = orphanTimers - 1
    /\ doPollEnter(pollTimer)
    /\ UNCHANGED <<tokenVars, startVars, hadRemoteInteraction, immediates, authCount,
                   errorEmitted, submitPc, ret, now, cookieVars>>

\* pollLoginStatus rejects (lines 259-262): 'error' is emitted.
PollFail ==
    /\ inFlight > 0
    /\ inFlight' = inFlight - 1
    /\ errorEmitted' = TRUE
    /\ UNCHANGED <<tokenVars, startVars, hadRemoteInteraction, pollingStartedTime, pollTimer,
                   pollingCanceled, immediates, orphanTimers, authCount, timedOut, firstTickTime, submitPc,
                   ret, now, cookieVars>>

\* The effect on the tokens of lines 273-274 for a response carrying `at` and
\* `rt`: the access token is assigned, then the refresh token; a setter that
\* throws ends the tick there.
commitTokens(at, rt) ==
    LET e1 == TokenError(at, startResp, refreshToken)
        e2 == TokenError(rt, startResp, at)
    IN [access |-> IF e1 = "ok" THEN at ELSE accessToken,
        refresh |-> IF e1 = "ok" /\ e2 = "ok" THEN rt ELSE refreshToken,
        ok |-> e1 = "ok" /\ e2 = "ok"]

\* pollLoginStatus resolves with `resp` (lines 264-278).
PollReturn(resp) ==
    /\ inFlight > 0
    /\ inFlight' = inFlight - 1
    /\ hadRemoteInteraction' = (hadRemoteInteraction \/ resp.hadRemoteInteraction)
    /\ IF resp.accessToken # Empty
       THEN LET c == commitTokens(resp.accessToken, resp.refreshToken) IN
            /\ accountName' = resp.accountName
            /\ accessToken' = c.access
            /\ refreshToken' = c.refresh
            /\ c.ok => authCount < MaxAuth
            /\ authCount' = IF c.ok THEN authCount + 1 ELSE authCount
            /\ UNCHANGED <<pollTimer, orphanTimers>>
       ELSE /\ IF ~pollingCanceled
               THEN /\ pollTimer = "pending" => orphanTimers < MaxOrphans
                    /\ orphanTimers' = IF pollTimer = "pending" THEN orphanTimers + 1
                                       ELSE orphanTimers
                    /\ pollTimer' = "pending"
               ELSE UNCHANGED <<pollTimer, orphanTimers>>
            /\ UNCHANGED <<tokenVars, authCount>>
    /\ UNCHANGED <<startVars, pollingStartedTime, pollingCanceled, immediates, timedOut, firstTickTime,
                   errorEmitted, submitPc, ret, now, cookieVars>>

\* Date.now() advances.
ClockTick ==
    /\ now < MaxTime
    /\ now' = now + 1
    /\ UNCHANGED <<tokenVars, pollVars, startVars, submitPc, ret, cookieVars>>

\* ------------------------------------------------------------ getWebCookies
\* How one transfer can end: its promise resolves with the cookies, rejects for
\* a missing Set-Cookie header or a missing steamLoginSecure cookie, or the
\* axios call throws inside the async executor, whose promise then never settles.
TransferOutcomes == {"ok", "noSetCookie", "noSteamLoginSecure", "hung"}
TransferRejections == {"noSetCookie", "noSteamLoginSecure"}

\* What transfer i's promise settles with.
CookieSet(i) == [cookiesOf |-> i]
TransferError(i, outcome) == [transfer |-> i, error |-> outcome]

\* A promise settles once: resolve and reject after that change nothing.
settle(result, new) == IF result.kind = "none" THEN new ELSE result

\* The steamID getter returns an identifier (lines 56-64).
steamIDKnown == startResp.started \/ accessToken # Empty \/ refreshToken # Empty

\* getWebCookies, to its rejection or to the await of the finalizelogin
\* request.  One call at a time.
GetWebCookies ==
    /\ cookiePc \in {"idle", "racing"}
    /\ cookiePc = "racing" => catchQueue = <<>> /\ \A i \in DOMAIN transfers : transfers[i] # "pending"
    /\ transfers' = <<>>
    /\ catchQueue' = <<>>
    /\ pendingPromises' = 0
    /\ rejections' = <<>>
    /\ completionOrder' = <<>>
    /\ IF refreshToken = Empty
       THEN /\ cookieResult' = Rejected("getWebCookies", "noRefreshToken")
            /\ cookiePc' = "idle"
       ELSE /\ cookieResult' = Unsettled
            /\ cookiePc' = "finalize"
    /\ UNCHANGED sessionVars

\* The finalizelogin request fails, or answers with an error or without
\* transfer_info.
FinalizeFail(why) ==
    /\ cookiePc = "finalize"
    /\ cookiePc' = "idle"
    /\ cookieResult' = Rejected("finalizelogin", why)
    /\ UNCHANGED <<sessionVars, transfers, catchQueue, pendingPromises, rejections,
                   completionOrder>>

\* The finalizelogin request answers with n transfers: one request is issued for
\* each (lines 395-411) and promiseAny subscribes to them (lines 424-438).
FinalizeDone(n) ==
    /\ cookiePc = "finalize"
    /\ cookiePc' = "racing"
    /\ transfers' = [i \in 1..n |-> IF steamIDKnown THEN "pending" ELSE "hung"]
    /\ pendingPromises' = n
    /\ UNCHANGED <<sessionVars, catchQueue, rejections, completionOrder, cookieResult>>

\* promiseAny's then handler (lines 427-430) for transfer i.
thenHandlerWhenAllDone(i) ==
    /\ pendingPromises' = pendingPromises - 1
    /\ cookieResult' = IF pendingPromises - 1 = 0
                       THEN settle(cookieResult, [kind |-> "resolved", value |-> CookieSet(i)])
                       ELSE cookieResult

thenHandler(i) ==
    /\ pendingPromises' = pendingPromises - 1
    /\ cookieResult' = settle(cookieResult, [kind |-> "resolved", value |-> CookieSet(i)])

\* The rejection promiseAny reports (line 435).
lastRejection(rejs) == rejs[Len(rejs)]

reportedRejection(rejs) == rejs[1]

\* Transfer i's request ends.  A resolved promise runs the then handler; a
\* rejected one passes the then stage and queues its catch handler.
TransferSettles(i, outcome) ==
    /\ cookiePc = "racing"
    /\ i \in DOMAIN transfers
    /\ transfers[i] = "pending"
    /\ transfers' = [transfers EXCEPT ![i] = outcome]
    /\ completionOrder' = IF outcome = "hung" THEN completionOrder
                          ELSE Append(completionOrder, i)
    /\ IF outcome = "ok"
       THEN thenHandler(i) /\ UNCHANGED catchQueue
       ELSE /\ catchQueue' = IF outcome \in TransferRejections THEN Append(catchQueue, i)
                             ELSE catchQueue
            /\ UNCHANGED <<pendingPromises, cookieResult>>
    /\ UNCHANGED <<sessionVars, rejections, cookiePc>>

\* promiseAny's catch handler (lines 430-437) for the rejection queued first.
CatchHandler ==
    /\ catchQueue # <<>>
    /\ LET i == Head(catchQueue)
           rejs == Append(rejections, TransferError(i, transfers[i]))
       IN /\ rejections' = rejs
          /\ pendingPromises' = pendingPromises - 1
          /\ cookieResult' = IF pendingPromises - 1 = 0
                             THEN settle(cookieResult,
                                         Rejected("promiseAny", reportedRejection(rejs)))
                             ELSE cookieResult
    /\ catchQueue' = Tail(catchQueue)
    /\ UNCHANGED <<sessionVars, transfers, completionOrder, cookiePc>>

\* ------------------------------------------------------------------ inputs
\* What pollLoginStatus may resolve with.
PollResponses(tokens, remote) ==
    [accessToken : tokens, refreshToken : tokens, accountName : {"alice"},
     hadRemoteInteraction : remote]

\* -------------------------------------------------------- specifications
\* One object, one set of actions.  The product of every input with every
\* interleaving is beyond exhaustive search, so each specification below
\* composes the actions that write the state its properties read, over the
\* inputs those properties distinguish.
\* The token setters against start responses and poll results: every token
\* and every account identifier, with start responses that start polling.
NextTokens ==
    \/ \E t \in Tokens \cup {Empty} : SetAccessToken(t)
    \/ \E t \in Tokens \cup {Empty} : SetRefreshToken(t)
    \/ StartWithCredentials(NoCode)
    \/ EncryptPasswordDone
    \/ StartCallFail
    \/ \E s \in StartSteamIds, confs \in {<<"None">>, <<"DeviceConfirmation">>} :
           StartSessionDone(s, confs)
    \/ ImmediateTick
    \/ TimerTick
    \/ OrphanTimerTick
    \/ PollFail
    \/ \E resp \in PollResponses(Tokens \cup {Empty}, {FALSE}) : PollReturn(resp)

SpecTokens == Init /\ [][NextTokens]_vars

\* The polling loop under every interleaving of its ticks with the clock,
\* cancelLoginAttempt and submitSteamGuardCode.
PollConfirmationLists ==
    { <<"None">>, <<"EmailCode">>, <<"DeviceConfirmation", "EmailConfirmation">> }

NextPoll ==
    \/ StartWithCredentials(NoCode)
    \/ EncryptPasswordDone
    \/ StartCallFail
    \/ \E confs \in PollConfirmationLists : StartSessionDone("A", confs)
    \/ SubmitSteamGuardCode
    \/ SubmitSteamGuardCodeDone
    \/ SubmitSteamGuardCodeFail
    \/ CancelLoginAttempt
    \/ ImmediateTick
    \/ TimerTick
    \/ OrphanTimerTick
    \/ PollFail
    \/ \E resp \in PollResponses({Empty, "jwtA1"}, BOOLEAN) : PollReturn(resp)
    \/ ClockTick

Spec == Init /\ [][NextPoll]_vars

\* Guard evaluation over every list of allowed confirmations, with and
\* without a supplied guard code.
NextGuard ==
    \/ \E c \in GuardCodes : StartWithCredentials(c)
    \/ EncryptPasswordDone
    \/ StartCallFail
    \/ \E confs \in ConfirmationLists : StartSessionDone("A", confs)
    \/ SubmitCodeDone
    \/ \E e \in SubmitFailures : SubmitCodeFail(e)
    \/ \E r \in {"OK", "Fail"} : MachineAuthDone(r)
    \/ MachineAuthFail
    \/ ImmediateTick

SpecGuard == Init /\ [][NextGuard]_vars

\* getWebCookies with every number of transfers up to MaxTransfers, every
\* outcome of each and every order of completion.
NextCookies ==
    \/ \E t \in {Empty, "jwtA1"} : SetRefreshToken(t)
    \/ GetWebCookies
    \/ \E why \in {"transport", "error", "malformed"} : FinalizeFail(why)
    \/ \E n \in 0..MaxTransfers : FinalizeDone(n)
    \/ \E i \in 1..MaxTransfers, o \in TransferOutcomes : TransferSettles(i, o)
    \/ CatchHandler

SpecCookies == Init /\ [][NextCookies]_vars

\* Direct calls of submitSteamGuardCode before any start response and after
\* every list of the two code challenges and a challenge of another type.
SubmitConfirmationLists ==
    SeqsUpTo({"EmailCode", "DeviceCode", "EmailConfirmation"}, MaxChallenges)

NextSubmit ==
    \/ StartWithCredentials(NoCode)
    \/ EncryptPasswordDone
    \/ StartCallFail
    \/ \E confs \in SubmitConfirmationLists : StartSessionDone("A", confs)
    \/ SubmitSteamGuardCode
    \/ SubmitSteamGuardCodeDone
    \/ SubmitSteamGuardCodeFail
    \/ ImmediateTick
    \/ PollFail

SpecSubmit == Init /\ [][NextSubmit]_vars

\* ------------------------------------------------------------------ claims
sub(token) == decodeJwt(token).sub

\* C1: whenever the access token and the refresh token are both set, the
\* subject decoded from the one equals the subject decoded from the other.
C1_SubjectsAgree ==
    (accessToken # Empty /\ refreshToken # Empty) => sub(accessToken) = sub(refreshToken)

\* Both tokens are set, and a poll tick committed them.
C1_Witness ==
    /\ accessToken # Empty
    /\ refreshToken # Empty
    /\ startResp.started
    /\ authCount > 0

\* C2: whenever a start response (with an account identifier) is stored, every
\* token that is set has that identifier as its subject.
C2_TokensMatchStartResponse ==
    (startResp.started /\ startResp.steamId # NoId) =>
        /\ accessToken # Empty => sub(accessToken) = startResp.steamId
        /\ refreshToken # Empty => sub(refreshToken) = startResp.steamId

\* The candidate token decodes, and its subject differs from the subject of
\* the token in the other slot or from the stored account identifier.
SubjectDiffers(token, other) ==
    /\ decodeJwt(token).ok
    /\ \/ other # Empty /\ sub(other) # sub(token)
       \/ startResp.started /\ startResp.steamId # NoId /\ sub(token) # startResp.steamId

\* C3: an assignment of a token whose subject differs from that of the other
\* token, or from the stored account identifier, throws, and the tokens and
\* the start response stay as they were.
C3_MismatchRejected ==
    [][\A t \in Tokens :
         /\ (SetAccessToken(t) /\ SubjectDiffers(t, refreshToken)) =>
                /\ ret'.op = "setAccessToken" /\ ret'.out # "ok"
                /\ UNCHANGED <<accessToken, refreshToken, startResp>>
         /\ (SetRefreshToken(t) /\ SubjectDiffers(t, accessToken)) =>
                /\ ret'.op = "setRefreshToken" /\ ret'.out # "ok"
                /\ UNCHANGED <<accessToken, refreshToken, startResp>>]_vars

\* An access token for another account was refused while both tokens were set,
\* and the stored access token is still there.
C3_Witness ==
    /\ ret = [op |-> "setAccessToken", out |-> "otherTokenMismatch"]
    /\ accessToken = "jwtA1"
    /\ refreshToken = "jwtA1"

\* C4: 'authenticated' is emitted at most once in a login attempt.
C4_AuthenticatedOnce == authCount <= 1

\* C5: cancelLoginAttempt returns true exactly when the poll timer is pending.
C5_CancelReturnsPending == (cancelReturns = "true") <=> (pollTimer = "pending")

\* C6: the tick that emits 'timeout' issues no poll call, and once 'timeout'
\* was emitted in an attempt no poll call is issued, no timer is armed and
\* 'authenticated' is not emitted.
C6_QuietAfterTimeout ==
    [][/\ (~timedOut /\ timedOut') => inFlight' <= inFlight
       /\ (timedOut /\ timedOut') =>
            /\ inFlight' <= inFlight
            /\ authCount' = authCount
            /\ orphanTimers' <= orphanTimers
            /\ pollTimer' = "pending" => pollTimer = "pending"]_vars

\* The result code that means "wrong code" for a challenge type.
WrongCodeResult(type) ==
    IF type = "EmailCode" THEN "InvalidLoginAuthCode" ELSE "TwoFactorCodeMismatch"

\* The challenge under evaluation was appended to the pending-action list.
FellThrough ==
    /\ Len(validActions') > Len(validActions)
    /\ SubSeq(validActions', 1, Len(validActions)) = validActions
    /\ validActions'[Len(validActions) + 1] = startResp.allowedConfirmations[idx]

ReachedNone ==
    /\ startPc # "idle"
    /\ startPc' = "idle"
    /\ idx' >= 1
    /\ startResp'.allowedConfirmations[idx'] = "None"

\* C10: a None challenge is the last one evaluated, and evaluation that
\* reaches it resolves with {actionRequired: false} and schedules a tick,
\* submitting no code in that step; with a single None challenge no code is
\* submitted at all.
C10_NoneResolves ==
    [][/\ \A k \in 1..idx' :
            startResp'.allowedConfirmations[k] = "None" =>
                k = idx' /\ startPc' = "idle" /\ startResult' = Resolved(FALSE, <<>>)
       /\ ReachedNone =>
            /\ startResult' = Resolved(FALSE, <<>>)
            /\ immediates' > immediates
            /\ codeSubmits' = codeSubmits
            /\ startResp'.allowedConfirmations = <<"None">> => codeSubmits' = 0]_vars

\* A single None challenge, a supplied code that was not submitted, and the
\* scheduled tick has issued its poll call.
C10_Witness ==
    /\ startResp.allowedConfirmations = <<"None">>
    /\ startResult = Resolved(FALSE, <<>>)
    /\ steamGuardCode # NoCode
    /\ codeSubmits = 0
    /\ inFlight > 0

\* The transfers that resolved, in the order they completed.
Succeeded == SelectSeq(completionOrder, LAMBDA i : transfers[i] = "ok")

\* C7: once a transfer has succeeded, the call is resolved with the cookies of
\* the transfer that succeeded first, whatever failed or succeeded besides.
C7_FirstSuccessWins ==
    Succeeded # <<>> =>
        cookieResult = [kind |-> "resolved", value |-> CookieSet(Succeeded[1])]

\* A transfer failed, then another succeeded, then a third succeeded.
C7_Witness ==
    /\ Len(completionOrder) = 3
    /\ transfers[completionOrder[1]] \in TransferRejections
    /\ Len(Succeeded) = 2
    /\ catchQueue = <<>>

\* Every transfer's promise has rejected and every catch handler has run.
AllFailed ==
    /\ cookiePc = "racing"
    /\ Len(transfers) >= 1
    /\ \A i \in DOMAIN transfers : transfers[i] \in TransferRejections
    /\ catchQueue = <<>>

\* C8 as stated: when every transfer has failed the call is rejected with the
\* failure of the first transfer of transfer_info.
C8_FirstSubmittedFailure ==
    AllFailed => cookieResult = Rejected("promiseAny", TransferError(1, transfers[1]))

\* C8 amended: when every transfer has failed the call is rejected with the
\* failure of the transfer that failed first in completion order; and the call
\* is rejected by promiseAny in no other case.
C8_FirstCompletedFailure ==
    /\ AllFailed =>
         cookieResult = Rejected("promiseAny",
                                 TransferError(completionOrder[1], transfers[completionOrder[1]]))
    /\ (cookieResult.kind = "rejected" /\ cookieResult.src = "promiseAny") => AllFailed

\* Three transfers failed, the first of transfer_info last, and the call is rejected.
C8_Witness ==
    /\ AllFailed
    /\ Len(transfers) = 3
    /\ completionOrder[3] = 1
    /\ cookieResult.kind = "rejected"

\* C11: submitSteamGuardCode fails, calling no collaborator and scheduling no
\* tick, when no session was started or neither EmailCode nor DeviceCode is
\* allowed; otherwise it submits with type EmailCode when EmailCode is allowed
\* and DeviceCode when it is not; a tick is scheduled when the collaborator
\* call resolves and none when it rejects.
C11_SubmitGuardCode ==
    [][/\ SubmitSteamGuardCode =>
            LET confs == startResp.allowedConfirmations
                email == \E k \in DOMAIN confs : confs[k] = "EmailCode"
                device == \E k \in DOMAIN confs : confs[k] = "DeviceCode"
            IN
            /\ immediates' = immediates
            /\ ~startResp.started =>
                   submitPc' = "idle" /\ ret'.out = "notStarted"
            /\ (startResp.started /\ ~email /\ ~device) =>
                   submitPc' = "idle" /\ ret'.out = "noGuardNeeded"
            /\ (startResp.started /\ email) =>
                   submitPc' = "await" /\ ret'.out = "EmailCode"
            /\ (startResp.started /\ ~email /\ device) =>
                   submitPc' = "await" /\ ret'.out = "DeviceCode"
       /\ (submitPc = "await" /\ submitPc' = "idle") =>
            (ret'.out = "resolved" <=> immediates' = immediates + 1)
       /\ (submitPc = "await" /\ submitPc' = "idle" /\ ret'.out # "resolved") =>
            /\ ret'.out = "rejected"
            /\ immediates' = immediates]_vars

\* Both code types are allowed, DeviceCode listed first; the code was submitted
\* and the tick scheduled by the resolved call has issued its poll call.
C11_Witness ==
    /\ startResp.allowedConfirmations = <<"DeviceCode", "EmailCode">>
    /\ ret = [op |-> "submitSteamGuardCode", out |-> "resolved"]
    /\ inFlight > 0

\* C12: startWithCredentials never resolves with {actionRequired: true} and an
\* empty validActions list; a start response whose list is empty or holds only
\* MachineToken entries makes the call fail; and the call resolves with
\* {actionRequired: false} only in a step that has scheduled a polling tick.
C12_NeverEmptyActions ==
    [][/\ startResult'.kind = "resolved" =>
            /\ startResult'.actionRequired =>
                  /\ startResult'.validActions = validActions'
                  /\ Len(validActions') > 0
            /\ (~startResult'.actionRequired /\ startResult # startResult') =>
                  immediates' > immediates
       /\ (/\ startPc = "start"
           /\ startPc' # "start"
           /\ startResp'.started
           /\ \A k \in DOMAIN startResp'.allowedConfirmations :
                 startResp'.allowedConfirmations[k] = "MachineToken") =>
             startResult'.kind = "rejected"]_vars

\* A start response listing only MachineToken made the call fail.
C12_Witness ==
    /\ startResp.allowedConfirmations = <<"MachineToken">>
    /\ startPc = "idle"
    /\ startResult = Rejected("processStartSessionResponse", "noValidActions")

\* C13: a failed poll call emits 'error' and its tick schedules no further
\* tick; and from then on, until the caller schedules a tick again with
\* submitSteamGuardCode or a new startWithCredentials, no poll call is issued.
C13_ErrorStopsPolling ==
    [][/\ PollFail =>
            /\ errorEmitted'
            /\ immediates' = immediates
            /\ pollTimer' = pollTimer
            /\ orphanTimers' = orphanTimers
       /\ (errorEmitted /\ errorEmitted') => inFlight' <= inFlight]_vars

\* The armed timers: the one _pollTimer refers to and those it no longer does.
liveTimers == (IF pollTimer = "pending" THEN 1 ELSE 0) + orphanTimers

\* C14: at most one poll call is in flight and at most one poll timer is armed.
C14_OnePollOneTimer == inFlight <= 1 /\ liveTimers <= 1

\* C15: a poll call that returns after cancelLoginAttempt was called (the
\* cancel flag is set while the call is in flight) has its result discarded:
\* account name and tokens stay as they were, neither 'authenticated' nor
\* 'remoteInteraction' is emitted, and no tick is scheduled.
C15_CanceledResultDiscarded ==
    [][(pollingCanceled /\ \E resp \in PollResponses({Empty, "jwtA1"}, BOOLEAN) : PollReturn(resp)) =>
          /\ UNCHANGED <<accountName, accessToken, refreshToken>>
          /\ authCount' = authCount
          /\ hadRemoteInteraction' = hadRemoteInteraction
          /\ UNCHANGED <<pollTimer, orphanTimers, immediates>>]_vars

\* The response carries an access token, and assigning its tokens throws.
ValidationFails(resp) ==
    /\ resp.accessToken # Empty
    /\ \/ TokenError(resp.accessToken, startResp, refreshToken) # "ok"
       \/ TokenError(resp.refreshToken, startResp, resp.accessToken) # "ok"

\* C16: a tick whose poll call fails, or whose response carries a token that
\* fails validation, emits 'error'.
C16_FatalConditionsNotified ==
    [][/\ PollFail => errorEmitted'
       /\ \A resp \in PollResponses(Tokens \cup {Empty}, {FALSE}) :
            (PollReturn(resp) /\ ValidationFails(resp)) => errorEmitted']_vars

\* C17: a tick that handles a poll response either takes account name, access
\* token and refresh token from the response and emits 'authenticated', or
\* leaves all three as they were.
C17_CommitAllOrNothing ==
    [][\A resp \in PollResponses(Tokens \cup {Empty}, {FALSE}) :
         PollReturn(resp) =>
            \/ /\ accountName' = resp.accountName
               /\ accessToken' = resp.accessToken
               /\ refreshToken' = resp.refreshToken
               /\ authCount' = authCount + 1
            \/ UNCHANGED <<accountName, accessToken, refreshToken>>]_vars

\* Every transfer request of the current getWebCookies call has ended and
\* every handler promiseAny attached to a settled transfer promise has run.
TransfersDone ==
    /\ cookiePc = "racing"
    /\ \A i \in DOMAIN transfers : transfers[i] # "pending"
    /\ catchQueue = <<>>

\* C18: once the finalize request has succeeded and every transfer request has
\* ended, whatever their number and outcomes, the getWebCookies call is settled.
C18_SettlesWhenTransfersDone == TransfersDone => cookieResult.kind # "none"

\* This step calls checkMachineAuthOrSendCodeEmail.
CallsMachineAuth == startPc # "machine" /\ startPc' = "machine"

\* What C19 says of the machine-token check apart from when it is called: the
\* call is made for an EmailCode challenge of a response listing MachineToken;
\* OK resolves with {actionRequired: false} and a scheduled tick; another
\* result appends the EmailCode challenge to validActions; MachineToken is
\* never in validActions; a response of only EmailCode without a supplied code
\* resolves with {actionRequired: true, validActions: [EmailCode]}.
MachineCheckOutcomes ==
    /\ CallsMachineAuth =>
          /\ startResp'.allowedConfirmations[idx'] = "EmailCode"
          /\ \E k \in DOMAIN startResp'.allowedConfirmations :
                startResp'.allowedConfirmations[k] = "MachineToken"
    /\ MachineAuthDone("OK") =>
          /\ startResult' = Resolved(FALSE, <<>>)
          /\ immediates' = immediates + 1
    /\ MachineAuthDone("Fail") =>
          /\ Len(validActions') > Len(validActions)
          /\ validActions'[Len(validActions) + 1] = "EmailCode"
    /\ \A k \in DOMAIN validActions' : validActions'[k] # "MachineToken"
    /\ (StartSessionDone("A", <<"EmailCode">>) /\ steamGuardCode = NoCode) =>
          startResult' = Resolved(TRUE, <<"EmailCode">>)

C20_TimeoutFromFirstTick ==
    [][/\ (firstTickTime = 0 /\ firstTickTime' # 0) =>
            /\ pollingStartedTime = 0
            /\ pollingStartedTime' = now
       /\ (~timedOut /\ timedOut') => now - firstTickTime' >= LoginTimeout]_vars
====
